---- MODULE Spec2Model ----
(***************************************************************************)
(* A model of the glo palette extraction package: the palette strip        *)
(* renderer (glo/visualize.py, glo/io.py), the k-means palette functions,  *)
(* the multi-image sampler and the accent selector (glo/extract.py) and    *)
(* the batch loops of the two scripts.                                     *)
(*                                                                         *)
(* Every function is a call frame held in one variable: Init of the        *)
(* function's specification draws the arguments, the action named after    *)
(* the function runs its whole body and stores what it returns or raises.  *)
(***************************************************************************)
EXTENDS Integers, Sequences, FiniteSets

VARIABLES strip, clus, samp, acc, batch, pix, quant

vars == <<strip, clus, samp, acc, batch, pix, quant>>

(***************************************************************************)
(* Bounds of the model.                                                    *)
(***************************************************************************)
MaxEntries == 2
MaxCount == 15
MaxWidth == 22
MaxPixels == 4
MaxColors == 3
MaxImages == 2
MaxImagePixels == 3
MaxPerImage == 2
MaxSeed == 1
MaxAccentPixels == 3
MaxAccentColors == 3
MaxScenarioTens == 1
MaxPlaces == 3

(***************************************************************************)
(* Generic helpers.                                                        *)
(***************************************************************************)
RECURSIVE Pow2(_)
Pow2(n) == IF n = 0 THEN 1 ELSE 2 * Pow2(n - 1)

RECURSIVE SumSeq(_)
SumSeq(s) == IF s = <<>> THEN 0 ELSE Head(s) + SumSeq(Tail(s))

SeqsUpTo(S, n) == UNION {[1..m -> S] : m \in 1..n}

(***************************************************************************)
(* IEEE-754 binary64 arithmetic of `int((count / total) * width)`.         *)
(*                                                                         *)
(* count / total is rounded to 53 significant bits, the product with       *)
(* width is rounded again, and int() truncates.  For 0 < count <= total    *)
(* the quotient's mantissa is Q = floor(count * 2^s / total) with          *)
(* remainder r = count * 2^s mod total, s = 52 + (number of doublings      *)
(* that bring count up to total); it is rounded up when 2r > total.        *)
(* When count * width / total is not an integer the two roundings cannot   *)
(* reach the next integer and the result is the floor.  When it is an      *)
(* integer m, a quotient rounded down by r / (total * 2^s) gives a product *)
(* just below m, which rounds back to m only if it lies within half a      *)
(* unit in the last place of m (a quarter when m is a power of two, where  *)
(* the spacing below m halves); otherwise the product stays below m and    *)
(* int() yields m - 1.                                                     *)
(***************************************************************************)
RECURSIVE DoublingsToReach(_, _)
DoublingsToReach(c, t) == IF c >= t THEN 0 ELSE 1 + DoublingsToReach(2 * c, t)

RECURSIVE ShiftMod(_, _, _)
ShiftMod(r, t, s) == IF s = 0 THEN r ELSE ShiftMod((2 * r) % t, t, s - 1)

RECURSIVE FloorLog2(_)
FloorLog2(m) == IF m < 2 THEN 0 ELSE 1 + FloorLog2(m \div 2)

Float64MulDivTrunc(c, t, width) ==
    IF c = 0 THEN 0
    ELSE LET m == (c * width) \div t
             exact == (c * width) % t = 0
             nj == DoublingsToReach(c, t)
             r == ShiftMod(c % t, t, 52 + nj)
             k == FloorLog2(m)
             pw == IF m = Pow2(k) THEN 1 ELSE 0
         IN  IF ~exact \/ m = 0 THEN m
             ELSE IF r = 0 \/ 2 * r > t THEN m
             ELSE IF width * r * Pow2(1 + pw) <= t * Pow2(k + nj) THEN m
             ELSE m - 1

(***************************************************************************)
(* render_palette_strip / save_palette_image.                              *)
(*                                                                         *)
(* A color is a positive number; 0 is a cell of the np.zeros buffer that   *)
(* no assignment has touched.  The strip is one row of `width` cells (the  *)
(* code assigns whole columns).                                            *)
(***************************************************************************)
Zeros(width) == [col \in 1..width |-> 0]

\* img[:, lo : hi, :] = color, with the slice clipped to the buffer.
AssignColumns(img, lo, hi, color) ==
    [col \in DOMAIN img |-> IF col > lo /\ col <= hi THEN color ELSE img[col]]

\* The same with the `if w <= 0: continue` test lost: a 1px sliver.
EntryWidthSliver(counts, i, width) ==
    LET w == Float64MulDivTrunc(counts[i], SumSeq(counts), width)
    IN  IF w <= 0 THEN 1 ELSE w

\* w = int(prop * width), prop = counts[i] / total
EntryWidth(counts, i, width) == Float64MulDivTrunc(counts[i], SumSeq(counts), width)

\* The for loop over zip(centers, proportions), from entry i on.
RECURSIVE PaintEntries(_, _, _, _, _, _)
PaintEntries(centers, counts, width, i, current_x, img) ==
    IF i > Len(counts) THEN [current_x |-> current_x, img |-> img]
    ELSE LET w == EntryWidth(counts, i, width)
         IN  IF w <= 0
             THEN PaintEntries(centers, counts, width, i + 1, current_x, img)
             ELSE PaintEntries(centers, counts, width, i + 1, current_x + w,
                               AssignColumns(img, current_x, current_x + w, centers[i]))

\* if current_x < width: img[:, current_x:, :] = centers[-1]
FillRemaining(centers, width, loop) ==
    IF loop.current_x < width
    THEN AssignColumns(loop.img, loop.current_x, width, centers[Len(centers)])
    ELSE loop.img

PaintStrip(centers, counts, width) ==
    LET loop == PaintEntries(centers, counts, width, 1, 0, Zeros(width))
    IN  [current_x |-> loop.current_x, img |-> FillRemaining(centers, width, loop)]

\* Palettes handed to the renderer: entry i has color i, so colors are
\* pairwise distinct.
StripInputs ==
    {[centers |-> [i \in 1..Len(cs) |-> i], counts |-> cs, width |-> wd] :
        cs \in SeqsUpTo(0..MaxCount, MaxEntries), wd \in 1..MaxWidth}

StripIdle == [pc |-> "idle"]

\* A total of 0 makes every proportion NaN and int(NaN) raises ValueError.
StripCall(fn) ==
    /\ strip.pc = "call"
    /\ UNCHANGED <<clus, samp, acc, batch, pix, quant>>
    /\ strip' = IF SumSeq(strip.counts) = 0
                THEN [strip EXCEPT !.pc = "error", !.fn = fn]
                ELSE LET out == PaintStrip(strip.centers, strip.counts, strip.width)
                     IN  [strip EXCEPT !.pc = "done", !.fn = fn,
                              !.current_x = out.current_x, !.img = out.img]

render_palette_strip == StripCall("render_palette_strip")

save_palette_image == StripCall("save_palette_image")

InitStrip ==
    /\ pix = [pc |-> "idle"]
    /\ quant = [pc |-> "idle"]
    /\ clus = [pc |-> "idle"]
    /\ samp = [pc |-> "idle"]
    /\ acc = [pc |-> "idle"]
    /\ batch = [pc |-> "idle"]
    /\ strip \in {[pc |-> "call", fn |-> "none", centers |-> a.centers,
                counts |-> a.counts, width |-> a.width, current_x |-> 0,
                img |-> Zeros(a.width)] :
                  a \in StripInputs}

NextStrip == render_palette_strip \/ save_palette_image

SpecStrip == InitStrip /\ [][NextStrip]_vars

(***************************************************************************)
(* Properties of the strip renderer.                                       *)
(***************************************************************************)
StripDone == strip.pc = "done"

\* floor(count * width / total) of entry i, in exact arithmetic.
FloorWidth(i) == (strip.counts[i] * strip.width) \div SumSeq(strip.counts)

\* The columns the entries before i take when each takes its FloorWidth.
RECURSIVE FloorOffset(_)
FloorOffset(i) == IF i <= 1 THEN 0 ELSE FloorOffset(i - 1) + FloorWidth(i - 1)

ColumnsOf(color) == {col \in 1..strip.width : strip.img[col] = color}

\* C1: for a palette with a positive total and a width >= 1 the finished
\* strip has exactly `width` columns, none of them unpainted; entry i holds
\* the floor(count * width / total) columns that follow those of the entries
\* before it, every column after the last entry's share carries the last
\* entry's color, and a single-entry palette gives a strip of one color.
C1_StripFillsWidthByFloor ==
    StripDone =>
        LET n == Len(strip.counts)
        IN  /\ DOMAIN strip.img = 1..strip.width
            /\ \A col \in 1..strip.width : strip.img[col] # 0
            /\ \A i \in 1..n :
                   \A col \in (FloorOffset(i) + 1)..(FloorOffset(i) + FloorWidth(i)) :
                       strip.img[col] = strip.centers[i]
            /\ \A col \in (FloorOffset(n + 1) + 1)..strip.width :
                   strip.img[col] = strip.centers[n]
            /\ (n = 1 => \A col \in 1..strip.width : strip.img[col] = strip.centers[1])

\* C4 as stated: in a finished strip no column carries the color of an entry
\* whose floor(count * width / total) is 0, the last entry included.
C4_ZeroWidthNeverPainted ==
    StripDone =>
        \A i \in 1..Len(strip.counts) : FloorWidth(i) = 0 => ColumnsOf(strip.centers[i]) = {}

\* C4 amended: an entry whose floor(count * width / total) is 0 is skipped by
\* the loop, so its color is in no column, unless it is the last entry and
\* the loop stopped short of the width: then exactly the leftover columns
\* current_x .. width-1 carry its color.
C4_ZeroWidthOnlyAsLeftover ==
    StripDone =>
        \A i \in 1..Len(strip.counts) :
            FloorWidth(i) = 0 =>
                ColumnsOf(strip.centers[i]) =
                    IF i = Len(strip.counts) /\ strip.current_x < strip.width
                    THEN (strip.current_x + 1)..strip.width
                    ELSE {}

\* A finished strip of two entries with positive counts that both truncate to
\* width 0: the first is absent, the last fills the leftover columns.
C4_Witness ==
    /\ StripDone
    /\ Len(strip.counts) = 2
    /\ strip.counts[1] > 0 /\ strip.counts[2] > 0
    /\ FloorWidth(1) = 0 /\ FloorWidth(2) = 0
    /\ ColumnsOf(strip.centers[1]) = {}
    /\ ColumnsOf(strip.centers[2]) = 1..strip.width

(***************************************************************************)
(* kmeans_palette_from_lab_pixels / extract_palette_kmeans.                *)
(*                                                                         *)
(* A sample is known by its number of pixels; cluster j's center is known  *)
(* by its index j in kmeans.cluster_centers_.  KMeans.fit_predict is the   *)
(* library's: it rejects n_clusters < 1 and fewer samples than clusters    *)
(* with a ValueError, and otherwise labels every pixel with a cluster      *)
(* index in 0..k-1; which labelling it finds depends on the pixel values,  *)
(* so every labelling is drawn.                                            *)
(***************************************************************************)
Reverse(s) == [i \in 1..Len(s) |-> s[Len(s) + 1 - i]]

Max(S) == CHOOSE x \in S : \A y \in S : y <= x

\* The same without the comparison of the sample size with k.
KMeansAcceptsAnySize(n_fit, k) == k >= 1 /\ n_fit >= 1

\* KMeans(n_clusters = k).fit_predict on n_fit pixels raises nothing.
KMeansAccepts(n_fit, k) == k >= 1 /\ n_fit >= k

Labelings(n_fit, k) == [1..n_fit -> 0..(k - 1)]

\* np.bincount(labels) without minlength: as long as the largest label + 1.
BincountShort(labels, minlength) ==
    LET top == IF DOMAIN labels = {} THEN 0
               ELSE Max({labels[i] : i \in DOMAIN labels}) + 1
    IN  [j \in 0..(top - 1) |-> Cardinality({i \in DOMAIN labels : labels[i] = j})]

\* np.bincount(labels, minlength = k), labels within 0..k-1.
Bincount(labels, minlength) ==
    [j \in 0..(minlength - 1) |-> Cardinality({i \in DOMAIN labels : labels[i] = j})]

\* np.argsort(counts) with the default kind (introsort, not stable): an
\* index order that sorts counts ascending; equal counts come in any order.
Argsort(counts) ==
    LET n == Cardinality(DOMAIN counts)
    IN  {p \in [1..n -> DOMAIN counts] :
            /\ \A i, j \in 1..n : i # j => p[i] # p[j]
            /\ \A i \in 1..(n - 1) : counts[p[i]] <= counts[p[i + 1]]}

\* counts[sort_idx]
Take(counts, sort_idx) == [i \in 1..Len(sort_idx) |-> counts[sort_idx[i]]]

\* sample_fraction as a pair <<numerator, denominator>>: 0.2, 0.5, 1.0
SampleFractions == {<<1, 5>>, <<1, 2>>, <<1, 1>>}

\* if 0 < sample_fraction < 1.0: size = int(n * sample_fraction); else all
SampledCount(n, f) ==
    IF 0 < f[1] /\ f[1] < f[2] THEN Float64MulDivTrunc(f[1], f[2], n) ELSE n

ClusIdle == [pc |-> "idle"]

ClusFrame(fn, n, k, f, cs) ==
    [pc |-> "call", fn |-> fn, n |-> n, n_colors |-> k, sample_fraction |-> f,
     color_space |-> cs, n_fit |-> 0, labels |-> <<>>, counts |-> <<>>,
     sort_idx |-> <<>>, centers_rgb |-> <<>>, counts_out |-> <<>>]

\* kmeans.fit_predict, np.bincount, np.argsort(counts)[::-1] and the return.
FitAndRank(n_fit) ==
    IF ~KMeansAccepts(n_fit, clus.n_colors)
    THEN clus' = [clus EXCEPT !.pc = "error", !.n_fit = n_fit]
    ELSE \E labels \in Labelings(n_fit, clus.n_colors) :
            LET counts == Bincount(labels, clus.n_colors)
            IN  \E order \in Argsort(counts) :
                    LET sort_idx == Reverse(order)
                    IN  clus' = [clus EXCEPT !.pc = "done", !.n_fit = n_fit,
                                    !.labels = labels, !.counts = counts,
                                    !.sort_idx = sort_idx,
                                    !.centers_rgb = sort_idx,
                                    !.counts_out = Take(counts, sort_idx)]

kmeans_palette_from_lab_pixels ==
    /\ clus.pc = "call"
    /\ clus.fn = "kmeans_palette_from_lab_pixels"
    /\ UNCHANGED <<strip, samp, acc, batch, pix, quant>>
    /\ FitAndRank(clus.n)

extract_palette_kmeans ==
    /\ clus.pc = "call"
    /\ clus.fn = "extract_palette_kmeans"
    /\ UNCHANGED <<strip, samp, acc, batch, pix, quant>>
    /\ IF clus.color_space \in {"rgb", "lab"}
       THEN FitAndRank(SampledCount(clus.n, clus.sample_fraction))
       ELSE clus' = [clus EXCEPT !.pc = "error"]

InitClus ==
    /\ pix = [pc |-> "idle"]
    /\ quant = [pc |-> "idle"]
    /\ strip = StripIdle
    /\ samp = [pc |-> "idle"]
    /\ acc = [pc |-> "idle"]
    /\ batch = [pc |-> "idle"]
    /\ clus \in
          {ClusFrame("kmeans_palette_from_lab_pixels", n, k, <<1, 1>>, "lab") :
              n \in 0..MaxPixels, k \in (-1)..MaxColors}
          \cup
          {ClusFrame("extract_palette_kmeans", n, k, f, cs) :
              n \in 1..MaxPixels, k \in (-1)..MaxColors,
              f \in SampleFractions, cs \in {"rgb", "lab", "hsv"}}

NextClus == kmeans_palette_from_lab_pixels \/ extract_palette_kmeans

SpecClus == InitClus /\ [][NextClus]_vars

(***************************************************************************)
(* Properties of the clustering functions.                                 *)
(***************************************************************************)
ClusDone == clus.pc = "done"

\* C2: the returned palette is ordered by non-increasing count, and of two
\* clusters with equal counts the one with the smaller centroid index of the
\* clustering run comes first.
C2_RankedWithAscendingIndexTies ==
    ClusDone =>
        \A i \in 1..(Len(clus.counts_out) - 1) :
            \/ clus.counts_out[i] > clus.counts_out[i + 1]
            \/ /\ clus.counts_out[i] = clus.counts_out[i + 1]
               /\ clus.centers_rgb[i] < clus.centers_rgb[i + 1]

\* C3: a palette produced by clustering n pixels into k colors has exactly k
\* entries, its counts sum to n, and every cluster of the run is exactly one
\* entry of it, with the count the run gave it.
C3_CountConservation ==
    ClusDone =>
        /\ Len(clus.centers_rgb) = clus.n_colors
        /\ Len(clus.counts_out) = clus.n_colors
        /\ SumSeq(clus.counts_out) = clus.n_fit
        /\ \A j \in 0..(clus.n_colors - 1) :
               Cardinality({i \in 1..Len(clus.centers_rgb) : clus.centers_rgb[i] = j}) = 1
        /\ \A i \in 1..Len(clus.centers_rgb) :
               clus.counts_out[i] =
                   Cardinality({x \in 1..clus.n_fit : clus.labels[x] = clus.centers_rgb[i]})

\* A palette of at least two colors from more pixels than colors, in which a
\* cluster is empty and two clusters tie.
C3_Witness ==
    /\ ClusDone
    /\ clus.n_colors >= 2
    /\ clus.n_fit > clus.n_colors
    /\ \E i \in 1..Len(clus.counts_out) : clus.counts_out[i] = 0
    /\ \E i \in 1..(Len(clus.counts_out) - 1) : clus.counts_out[i] = clus.counts_out[i + 1]

\* C9: whenever k < 1 or k exceeds the number of pixels handed to the
\* clusterer (after sub-sampling), the call ends in an error and returns no
\* centers and no counts.
C9_InvalidKRejected ==
    (clus.pc \in {"done", "error"}
        /\ (clus.n_colors < 1 \/ clus.n_colors > clus.n_fit))
    => /\ clus.pc = "error"
       /\ clus.centers_rgb = <<>>
       /\ clus.counts_out = <<>>

\* extract_palette_kmeans on an image with at least k pixels whose sub-sample
\* is smaller than k, ended in an error.
C9_Witness ==
    /\ clus.pc = "error"
    /\ clus.fn = "extract_palette_kmeans"
    /\ clus.color_space = "lab"
    /\ clus.n_colors >= 1
    /\ clus.n >= clus.n_colors
    /\ clus.n_fit >= 1
    /\ clus.n_fit < clus.n_colors

(***************************************************************************)
(* sample_lab_pixels_from_images.                                          *)
(*                                                                         *)
(* An image file is [id, n_pixels, ok]: n_pixels is the number of pixels   *)
(* load_image returns for it (after the resize to max_dim), ok is FALSE    *)
(* when Image.open raises.  The decoders hand out no image without pixels, *)
(* so n_pixels >= 1.  A sampled pixel is known by its index in the image.  *)
(*                                                                         *)
(* np.random.default_rng(random_state) is a deterministic generator: a     *)
(* state set by the seed and advanced by every draw.  It is modelled by a  *)
(* full-period linear congruential generator, and rng.choice(n, size,      *)
(* replace=False) by a partial shuffle that takes one draw per index.      *)
(***************************************************************************)
RngModulus == 16
RngMultiplier == 5
RngIncrement == 3

default_rng(random_state) == random_state % RngModulus

RngAdvance(state) == (RngMultiplier * state + RngIncrement) % RngModulus

RemoveAt(s, j) == [i \in 1..(Len(s) - 1) |-> IF i < j THEN s[i] ELSE s[i + 1]]

RECURSIVE DrawFrom(_, _, _, _)
DrawFrom(pool, size, state, idx) ==
    IF size = 0 THEN [idx |-> idx, state |-> state]
    ELSE LET next == RngAdvance(state)
             j == (next % Len(pool)) + 1
         IN  DrawFrom(RemoveAt(pool, j), size - 1, next, Append(idx, pool[j]))

\* rng.choice(n_pixels, size = n_sample, replace = False), 0 <= size <= n_pixels
Choice(n_pixels, size, state) ==
    DrawFrom([i \in 1..n_pixels |-> i - 1], size, state, <<>>)

Min(a, b) == IF a <= b THEN a ELSE b

\* The for loop over image_paths from path i on: one generator for all images.
RECURSIVE SampleImages(_, _, _, _, _)
SampleImages(image_paths, pixels_per_image, i, rng, all_samples) ==
    IF i > Len(image_paths) THEN [status |-> "ok", all_samples |-> all_samples]
    ELSE LET img == image_paths[i]
             n_sample == Min(pixels_per_image, img.n_pixels)
         IN  IF ~img.ok
             THEN [status |-> "error", all_samples |-> <<>>]   \* load_image raises
             ELSE IF n_sample < 0
             THEN [status |-> "error", all_samples |-> <<>>]   \* rng.choice raises
             ELSE LET drawn == Choice(img.n_pixels, n_sample, rng)
                  IN  SampleImages(image_paths, pixels_per_image, i + 1, drawn.state,
                                   Append(all_samples, drawn.idx))

\* The whole function; np.vstack of an empty list raises ValueError.
SampleLabPixels(image_paths, pixels_per_image, random_state) ==
    LET loop == SampleImages(image_paths, pixels_per_image, 1,
                             default_rng(random_state), <<>>)
    IN  IF loop.status = "ok" /\ loop.all_samples = <<>>
        THEN [status |-> "error", all_samples |-> <<>>]
        ELSE loop

ImageFiles ==
    {[id |-> i, n_pixels |-> n, ok |-> b] :
        i \in 1..MaxImages, n \in 1..MaxImagePixels, b \in BOOLEAN}

\* Lists of image files with pairwise different ids.
ImageLists ==
    {l \in UNION {[1..m -> ImageFiles] : m \in 0..MaxImages} :
        \A i, j \in 1..Len(l) : i # j => l[i].id # l[j].id}

SampIdle == [pc |-> "idle"]

\* Two calls with the same seed and pixels_per_image on two image lists in
\* which an image id stands for the same file.
SampFrames ==
    {[pc |-> "call", random_state |-> seed, pixels_per_image |-> ppi,
      image_paths |-> <<l1, l2>>,
      status |-> <<"call", "call">>, all_samples |-> << <<>>, <<>> >>] :
        seed \in 0..MaxSeed, ppi \in (-1)..MaxPerImage,
        l1 \in ImageLists, l2 \in ImageLists}

SameFiles(l1, l2) ==
    \A i \in 1..Len(l1), j \in 1..Len(l2) : l1[i].id = l2[j].id => l1[i] = l2[j]

sample_lab_pixels_from_images ==
    /\ samp.pc = "call"
    /\ UNCHANGED <<strip, clus, acc, batch, pix, quant>>
    /\ \E run \in 1..2 :
          /\ samp.status[run] = "call"
          /\ LET out == SampleLabPixels(samp.image_paths[run], samp.pixels_per_image,
                                        samp.random_state)
             IN  samp' = [samp EXCEPT !.status[run] = out.status,
                                      !.all_samples[run] = out.all_samples]

InitSamp ==
    /\ pix = [pc |-> "idle"]
    /\ quant = [pc |-> "idle"]
    /\ strip = StripIdle
    /\ clus = ClusIdle
    /\ acc = [pc |-> "idle"]
    /\ batch = [pc |-> "idle"]
    /\ samp \in {f \in SampFrames : SameFiles(f.image_paths[1], f.image_paths[2])}

NextSamp == sample_lab_pixels_from_images

SpecSamp == InitSamp /\ [][NextSamp]_vars

C10_NonPositiveSampleCountRejected ==
    samp.pc = "call" =>
        \A run \in 1..2 :
            (/\ samp.status[run] # "call"
             /\ \/ samp.pixels_per_image <= 0
                \/ \E i \in 1..Len(samp.image_paths[run]) :
                      samp.image_paths[run][i].n_pixels = 0)
            => (samp.status[run] = "error" /\ samp.all_samples[run] = <<>>)

(***************************************************************************)
(* extract_accent_palette.                                                 *)
(*                                                                         *)
(* A LAB pixel is its <<a, b>> pair (L plays no part in the selection).    *)
(* The pixel values are chosen with an integer chroma, so that sqrt is     *)
(* exact: chroma 1, 5 and 50.  The threshold is kept times 100, the        *)
(* percentile being a whole number of percent.                             *)
(***************************************************************************)
LabValues == {<<1, 0>>, <<3, 4>>, <<30, 40>>}

LowChroma == <<1, 0>>

HighChroma == <<30, 40>>

Percentiles == {0, 50, 85, 100}

RECURSIVE Isqrt(_, _)
Isqrt(x, r) == IF (r + 1) * (r + 1) > x THEN r ELSE Isqrt(x, r + 1)

\* chroma = np.sqrt(a * a + b * b)
Chroma(px) == Isqrt(px[1] * px[1] + px[2] * px[2], 0)

ChromaOf(lab_pixels) == [i \in 1..Len(lab_pixels) |-> Chroma(lab_pixels[i])]

\* The values of s in ascending order.
RECURSIVE SortAscending(_)
SortAscending(s) ==
    IF s = <<>> THEN <<>>
    ELSE LET i == CHOOSE x \in 1..Len(s) : \A y \in 1..Len(s) : s[x] <= s[y]
         IN  <<s[i]>> \o SortAscending(RemoveAt(s, i))

\* 100 * np.percentile(chroma, q): linear interpolation between the order
\* statistics around the virtual index (n - 1) * q / 100.
Percentile100(chroma, q) ==
    LET sorted == SortAscending(chroma)
        n == Len(chroma)
        pos == (n - 1) * q
        lo == (pos \div 100) + 1
        hi == Min(lo + 1, n)
    IN  100 * sorted[lo] + (sorted[hi] - sorted[lo]) * (pos % 100)

\* The subsequence of s at the positions where keep holds.
RECURSIVE SelectSeq2(_, _, _)
SelectSeq2(s, keep, i) ==
    IF i > Len(s) THEN <<>>
    ELSE (IF keep[i] THEN <<s[i]>> ELSE <<>>) \o SelectSeq2(s, keep, i + 1)

\* The mask with > for >=: pixels at the threshold are dropped.
AboveThresholdStrict(chroma, threshold100) ==
    [i \in 1..Len(chroma) |-> 100 * chroma[i] > threshold100]

\* chroma >= threshold
AboveThreshold(chroma, threshold100) ==
    [i \in 1..Len(chroma) |-> 100 * chroma[i] >= threshold100]

\* The test with <= for <.
TooFewOrEqual(n_high, n_colors) == n_high <= n_colors

\* if high_chroma.shape[0] < n_colors
TooFew(n_high, n_colors) == n_high < n_colors

\* Samples of up to MaxAccentPixels pixels, and the samples in which nine
\* pixels out of ten have chroma 1 and one out of ten has chroma 50.
RECURSIVE SubsetsOfSize(_, _)
SubsetsOfSize(n, k) ==
    IF k = 0 THEN {{}}
    ELSE IF n < k THEN {}
    ELSE SubsetsOfSize(n - 1, k) \cup {T \cup {n} : T \in SubsetsOfSize(n - 1, k - 1)}

ScenarioSamples ==
    UNION {{[i \in 1..(10 * m) |-> IF i \in T THEN HighChroma ELSE LowChroma] :
               T \in SubsetsOfSize(10 * m, m)} :
           m \in 1..MaxScenarioTens}

AccFrame(px, k, q) ==
    [pc |-> "call", lab_pixels |-> px, n_colors |-> k, chroma_percentile |-> q,
     threshold100 |-> 0, high_chroma |-> <<>>, message |-> <<>>, passed |-> <<>>]

AccFrames ==
    {AccFrame(px, k, q) : px \in SeqsUpTo(LabValues, MaxAccentPixels),
                          k \in 0..MaxAccentColors, q \in Percentiles}
    \cup
    UNION {{AccFrame(px, k, q) : k \in {1, Len(px) + 1}, q \in Percentiles} :
           px \in ScenarioSamples}

AccIdle == [pc |-> "idle"]

\* The body up to the raise or the call of kmeans_palette_from_lab_pixels,
\* which then runs as its own action on the frame handed to it.
extract_accent_palette ==
    /\ acc.pc = "call"
    /\ UNCHANGED <<strip, samp, batch, pix, quant>>
    /\ LET chroma == ChromaOf(acc.lab_pixels)
           threshold100 == Percentile100(chroma, acc.chroma_percentile)
           mask == AboveThreshold(chroma, threshold100)
           high_chroma == SelectSeq2([i \in 1..Len(chroma) |-> i], mask, 1)
       IN  IF TooFew(Len(high_chroma), acc.n_colors)
           THEN /\ acc' = [acc EXCEPT !.pc = "raise", !.threshold100 = threshold100,
                                !.high_chroma = high_chroma,
                                !.message = <<Len(high_chroma), acc.n_colors>>]
                /\ UNCHANGED clus
           ELSE /\ acc' = [acc EXCEPT !.pc = "return", !.threshold100 = threshold100,
                                !.high_chroma = high_chroma,
                                !.passed = high_chroma]
                /\ clus' = ClusFrame("kmeans_palette_from_lab_pixels",
                                     Len(high_chroma), acc.n_colors, <<1, 1>>, "lab")

InitAcc ==
    /\ pix = [pc |-> "idle"]
    /\ quant = [pc |-> "idle"]
    /\ strip = StripIdle
    /\ clus = ClusIdle
    /\ samp = SampIdle
    /\ batch = [pc |-> "idle"]
    /\ acc \in AccFrames

NextAcc == extract_accent_palette \/ kmeans_palette_from_lab_pixels

SpecAcc == InitAcc /\ [][NextAcc]_vars

(***************************************************************************)
(* Properties of the accent selector.                                      *)
(***************************************************************************)
AccFinished == acc.pc \in {"raise", "return"}

\* The positions of the pixels whose chroma is at least the threshold.
Retained ==
    {i \in 1..Len(acc.lab_pixels) : 100 * Chroma(acc.lab_pixels[i]) >= acc.threshold100}

PixelsWithChroma(c) == {i \in 1..Len(acc.lab_pixels) : Chroma(acc.lab_pixels[i]) = c}

\* 90% of the pixels have chroma 1, 10% have chroma 50, chroma_percentile = 85.
IsScenario ==
    /\ acc.chroma_percentile = 85
    /\ Len(acc.lab_pixels) > 0
    /\ 10 * Cardinality(PixelsWithChroma(1)) = 9 * Len(acc.lab_pixels)
    /\ 10 * Cardinality(PixelsWithChroma(50)) = Len(acc.lab_pixels)

\* C7 as stated: on the 90% / 10% sample with percentile 85 the retained
\* pixels are about the top 15% by chroma: every chroma-50 pixel and a small
\* slice of the others, at most a fifth of the sample in all.
C7_ScenarioRetainsTopFifteenPercent ==
    (AccFinished /\ IsScenario) =>
        /\ PixelsWithChroma(50) \subseteq {acc.high_chroma[i] : i \in 1..Len(acc.high_chroma)}
        /\ 100 * Len(acc.high_chroma) <= 20 * Len(acc.lab_pixels)

\* C7 amended: on the 90% / 10% sample with percentile 85 the interpolated
\* percentile lies among the chroma-1 pixels, the threshold is 1, and
\* chroma >= threshold keeps every pixel of the sample, in order.
C7_ScenarioRetainsWholeSample ==
    (AccFinished /\ IsScenario) =>
        /\ acc.threshold100 = 100
        /\ acc.high_chroma = [i \in 1..Len(acc.lab_pixels) |-> i]

\* The 90% / 10% sample went through the selection and on to clustering.
C7_Witness == IsScenario /\ acc.pc = "return" /\ clus.pc = "done"

\* C8: the call raises, with a message naming the retained count and k,
\* exactly when fewer than k pixels have chroma >= threshold, and then
\* clustering is never invoked; otherwise kmeans_palette_from_lab_pixels is
\* invoked with exactly the retained pixels, in order, and the requested k.
C8_RaisesIffTooFewRetained ==
    AccFinished =>
        /\ (acc.pc = "raise") <=> (Cardinality(Retained) < acc.n_colors)
        /\ acc.pc = "raise" =>
              /\ acc.message = <<Cardinality(Retained), acc.n_colors>>
              /\ clus = ClusIdle
        /\ acc.pc = "return" =>
              /\ Len(acc.passed) = Cardinality(Retained)
              /\ {acc.passed[i] : i \in 1..Len(acc.passed)} = Retained
              /\ \A i \in 1..(Len(acc.passed) - 1) : acc.passed[i] < acc.passed[i + 1]
              /\ clus.pc # "idle"
              /\ clus.fn = "kmeans_palette_from_lab_pixels"
              /\ clus.n = Cardinality(Retained)
              /\ clus.n_colors = acc.n_colors

\* A call that raised with some pixels dropped, at least two retained and k
\* one more than the retained count.
C8_Witness ==
    /\ acc.pc = "raise"
    /\ Cardinality(Retained) >= 2
    /\ Cardinality(Retained) < Len(acc.lab_pixels)
    /\ acc.n_colors = Cardinality(Retained) + 1

(***************************************************************************)
(* The batch loops of scripts/extract_palette.py and                       *)
(* scripts/roadtrip_composite.py.                                          *)
(*                                                                         *)
(* A place is known by what its directory holds:                           *)
(*   "good"        photos that load, enough high-chroma pixels             *)
(*   "fewaccent"   photos that load, fewer high-chroma pixels than         *)
(*                 --accent-colors: extract_accent_palette raises          *)
(*   "unreadable"  a photo that Image.open cannot read: the sampler raises *)
(*   "nophotos"    a directory without photos                              *)
(*   "nodir"       no directory of that name                               *)
(* Neither script catches an exception, so one that is raised ends the     *)
(* process with a traceback: pc = "aborted".  A file is <<place, kind>>,   *)
(* place 0 standing for the composite.                                     *)
(***************************************************************************)
PlaceKinds == {"good", "fewaccent", "unreadable", "nophotos", "nodir"}

BatchIdle == [pc |-> "idle"]

BatchFrames ==
    {[pc |-> "start", script |-> sc, accent |-> ac, places |-> pl,
      resolved |-> <<>>, i |-> 1, files |-> {}, json_accent |-> {},
      place_palettes |-> <<>>, skipped |-> {}] :
        sc \in {"extract_palette", "roadtrip_composite"}, ac \in BOOLEAN,
        pl \in SeqsUpTo(PlaceKinds, MaxPlaces)}

\* The indexes of the places whose directory exists, in order.
RECURSIVE ExistingDirs(_, _)
ExistingDirs(places, i) ==
    IF i > Len(places) THEN <<>>
    ELSE (IF places[i] = "nodir" THEN <<>> ELSE <<i>>) \o ExistingDirs(places, i + 1)

\* extract_palette.py: places = resolve_places(args); sys.exit(1) if empty.
resolve_places ==
    /\ batch.pc = "start"
    /\ batch.script = "extract_palette"
    /\ LET places == ExistingDirs(batch.places, 1)
       IN  batch' = [batch EXCEPT !.resolved = places,
                                  !.pc = IF places = <<>> THEN "failed" ELSE "place"]
    /\ UNCHANGED <<strip, clus, samp, acc, pix, quant>>

\* The kind of the place the loop stands at.
Current == batch.places[batch.resolved[batch.i]]

\* extract_for_place up to the main palette: find_photos, the sampler and
\* kmeans_palette_from_lab_pixels.
extract_for_place_cluster ==
    /\ batch.pc = "place"
    /\ batch.i <= Len(batch.resolved)
    /\ batch' =
          IF Current = "nophotos"
          THEN [batch EXCEPT !.skipped = @ \cup {batch.resolved[batch.i]},
                             !.i = @ + 1]
          ELSE IF Current = "unreadable"
          THEN [batch EXCEPT !.pc = "aborted"]
          ELSE [batch EXCEPT !.pc = "save_palette"]
    /\ UNCHANGED <<strip, clus, samp, acc, pix, quant>>

\* save_palette_image(centers, counts, <name>_palette.png)
extract_for_place_save_palette ==
    /\ batch.pc = "save_palette"
    /\ batch' = [batch EXCEPT !.files = @ \cup {<<batch.resolved[batch.i], "palette.png">>},
                              !.pc = IF batch.accent THEN "accent" ELSE "save_json"]
    /\ UNCHANGED <<strip, clus, samp, acc, pix, quant>>

\* The same with the exception of extract_accent_palette swallowed: the place
\* goes on to its JSON without accent colors.
extract_for_place_accent_swallowed ==
    /\ batch.pc = "accent"
    /\ batch' = IF Current = "fewaccent"
                THEN [batch EXCEPT !.pc = "save_json"]
                ELSE [batch EXCEPT !.pc = "save_accent"]
    /\ UNCHANGED <<strip, clus, samp, acc, pix, quant>>

\* if args.accent: extract_accent_palette(...)
extract_for_place_accent ==
    /\ batch.pc = "accent"
    /\ batch' = IF Current = "fewaccent"
                THEN [batch EXCEPT !.pc = "aborted"]
                ELSE [batch EXCEPT !.pc = "save_accent"]
    /\ UNCHANGED <<strip, clus, samp, acc, pix, quant>>

\* save_palette_image(acc_centers, acc_counts, <name>_accent.png) and
\* result["accent_colors"] = ...
extract_for_place_save_accent ==
    /\ batch.pc = "save_accent"
    /\ batch' = [batch EXCEPT !.files = @ \cup {<<batch.resolved[batch.i], "accent.png">>},
                              !.json_accent = @ \cup {batch.resolved[batch.i]},
                              !.pc = "save_json"]
    /\ UNCHANGED <<strip, clus, samp, acc, pix, quant>>

\* json.dump(result, <name>_palette.json) and the return to the loop.
extract_for_place_save_json ==
    /\ batch.pc = "save_json"
    /\ batch' = [batch EXCEPT !.files = @ \cup {<<batch.resolved[batch.i], "palette.json">>},
                              !.i = @ + 1, !.pc = "place"]
    /\ UNCHANGED <<strip, clus, samp, acc, pix, quant>>

\* The for loop of main has run out of places.
extract_palette_main_end ==
    /\ batch.pc = "place"
    /\ batch.script = "extract_palette"
    /\ batch.i > Len(batch.resolved)
    /\ batch' = [batch EXCEPT !.pc = "done"]
    /\ UNCHANGED <<strip, clus, samp, acc, pix, quant>>

\* roadtrip_composite.py: the loop runs over args.places as given.
roadtrip_start ==
    /\ batch.pc = "start"
    /\ batch.script = "roadtrip_composite"
    /\ batch' = [batch EXCEPT !.resolved = [j \in 1..Len(batch.places) |-> j],
                              !.pc = "roadtrip_place"]
    /\ UNCHANGED <<strip, clus, samp, acc, pix, quant>>

\* One iteration of the loop of roadtrip_composite.main.
roadtrip_place ==
    /\ batch.pc = "roadtrip_place"
    /\ batch.i <= Len(batch.resolved)
    /\ batch' =
          IF Current \in {"nodir", "nophotos"}
          THEN [batch EXCEPT !.skipped = @ \cup {batch.i}, !.i = @ + 1]
          ELSE IF Current = "unreadable" \/ (batch.accent /\ Current = "fewaccent")
          THEN [batch EXCEPT !.pc = "aborted"]
          ELSE [batch EXCEPT !.place_palettes = Append(@, batch.i), !.i = @ + 1]
    /\ UNCHANGED <<strip, clus, samp, acc, pix, quant>>

\* if not place_palettes: sys.exit(1); else render and save the composite.
roadtrip_save_composite ==
    /\ batch.pc = "roadtrip_place"
    /\ batch.i > Len(batch.resolved)
    /\ batch' = IF batch.place_palettes = <<>>
                THEN [batch EXCEPT !.pc = "failed"]
                ELSE [batch EXCEPT !.files = @ \cup {<<0, "composite.png">>},
                                   !.pc = "roadtrip_json"]
    /\ UNCHANGED <<strip, clus, samp, acc, pix, quant>>

\* json.dump(summary, composite.json)
roadtrip_save_summary ==
    /\ batch.pc = "roadtrip_json"
    /\ batch' = [batch EXCEPT !.files = @ \cup {<<0, "composite.json">>},
                              !.pc = "done"]
    /\ UNCHANGED <<strip, clus, samp, acc, pix, quant>>

InitBatch ==
    /\ pix = [pc |-> "idle"]
    /\ quant = [pc |-> "idle"]
    /\ strip = StripIdle
    /\ clus = ClusIdle
    /\ samp = SampIdle
    /\ acc = AccIdle
    /\ batch \in BatchFrames

NextBatch ==
    \/ resolve_places
    \/ extract_for_place_cluster
    \/ extract_for_place_save_palette
    \/ extract_for_place_accent
    \/ extract_for_place_save_accent
    \/ extract_for_place_save_json
    \/ extract_palette_main_end
    \/ roadtrip_start
    \/ roadtrip_place
    \/ roadtrip_save_composite
    \/ roadtrip_save_summary

SpecBatch == InitBatch /\ [][NextBatch]_vars

(***************************************************************************)
(* Properties of the batch loops.                                          *)
(***************************************************************************)
BatchEnded == batch.pc \in {"done", "failed", "aborted"}

\* Place j has a data failure: an unreadable image, no photos, or too few
\* high-chroma pixels when accents are asked for.
DataFailure(j) ==
    \/ batch.places[j] \in {"unreadable", "nophotos"}
    \/ batch.accent /\ batch.places[j] = "fewaccent"

\* Place j has data that every step of its extraction accepts.
Healthy(j) ==
    \/ batch.places[j] = "good"
    \/ ~batch.accent /\ batch.places[j] = "fewaccent"

\* The outputs of place j exist.
Produced(j) ==
    IF batch.script = "extract_palette"
    THEN /\ <<j, "palette.png">> \in batch.files
         /\ <<j, "palette.json">> \in batch.files
         /\ batch.accent => <<j, "accent.png">> \in batch.files
    ELSE /\ \E x \in 1..Len(batch.place_palettes) : batch.place_palettes[x] = j
         /\ <<0, "composite.png">> \in batch.files

\* C6: when the batch has ended, every place with good data that comes after
\* a place with a data failure has been processed and has its outputs: the
\* failure did not abort the batch.
C6_FailureDoesNotAbortBatch ==
    BatchEnded =>
        \A j \in 1..Len(batch.places) :
            (Healthy(j) /\ \E i \in 1..(j - 1) : DataFailure(i)) => Produced(j)

\* Place j's artifact of the given kind has been written in this run.
Written(j, kind) == <<j, kind>> \in batch.files

\* extract_accent_palette raised for the place the loop stands at.
AccentFailed ==
    /\ batch.script = "extract_palette"
    /\ batch.pc = "aborted"
    /\ batch.accent
    /\ Current = "fewaccent"

\* C13: in extract_for_place the JSON sidecar is written last: wherever
\* <name>_palette.json exists, <name>_palette.png exists, and with --accent
\* <name>_accent.png exists and the JSON holds the accent colors; when the
\* accent extraction fails, the place has its palette.png and no JSON.
C13_JsonSidecarWrittenLast ==
    batch.pc # "idle" =>
        /\ \A j \in 1..Len(batch.places) :
               Written(j, "palette.json") =>
                   /\ Written(j, "palette.png")
                   /\ batch.accent => /\ Written(j, "accent.png")
                                      /\ j \in batch.json_accent
        /\ AccentFailed =>
               /\ Written(batch.resolved[batch.i], "palette.png")
               /\ ~Written(batch.resolved[batch.i], "palette.json")

\* A run with --accent in which one place got its JSON with accent colors
\* after both strips, and the accent extraction of a later place failed.
C13_Witness ==
    /\ AccentFailed
    /\ Written(batch.resolved[batch.i], "palette.png")
    /\ \E j \in 1..Len(batch.places) :
           /\ Written(j, "palette.json")
           /\ Written(j, "accent.png")
           /\ j \in batch.json_accent


(***************************************************************************)
(* image_to_pixels, and the sub-sampling of the LAB branch of              *)
(* extract_palette_kmeans.                                                 *)
(*                                                                         *)
(* An image is known by its number of pixels, a returned pixel by its      *)
(* position in the flattened image.  sample_fraction is a pair             *)
(* <<numerator, denominator>>: the decimal the caller writes, which the    *)
(* interpreter turns into the nearest binary64 value.                      *)
(***************************************************************************)
MaxSamplePixels == 50

\* 0.01 .. 0.99, and 0.0, 1.0, 1.5
PixFractions == {<<c, 100>> : c \in 1..99} \cup {<<0, 1>>, <<1, 1>>, <<3, 2>>}

\* if 0 < sample_fraction < 1.0: idx = rng.choice(n, size = int(n * f),
\* replace = False); pixels = pixels[idx].  Otherwise pixels stays as it is.
Subsample(n_pixels, sample_fraction, random_state) ==
    IF 0 < sample_fraction[1] /\ sample_fraction[1] < sample_fraction[2]
    THEN Choice(n_pixels, SampledCount(n_pixels, sample_fraction),
                default_rng(random_state)).idx
    ELSE [i \in 1..n_pixels |-> i - 1]

PixIdle == [pc |-> "idle"]

PixFrames ==
    [pc : {"call"}, fn : {"image_to_pixels", "extract_palette_kmeans"},
     n_pixels : 1..MaxSamplePixels, sample_fraction : PixFractions,
     random_state : 0..MaxSeed, pixels : {<<>>}]

image_to_pixels ==
    /\ pix.pc = "call"
    /\ pix.fn = "image_to_pixels"
    /\ pix' = [pix EXCEPT !.pc = "done",
                  !.pixels = Subsample(pix.n_pixels, pix.sample_fraction,
                                       pix.random_state)]
    /\ UNCHANGED <<strip, clus, samp, acc, batch, quant>>

\* The elif color_space.lower() == "lab" branch up to pixels = lab_pixels.
extract_palette_kmeans_lab_pixels ==
    /\ pix.pc = "call"
    /\ pix.fn = "extract_palette_kmeans"
    /\ pix' = [pix EXCEPT !.pc = "done",
                  !.pixels = Subsample(pix.n_pixels, pix.sample_fraction,
                                       pix.random_state)]
    /\ UNCHANGED <<strip, clus, samp, acc, batch, quant>>

InitPix ==
    /\ pix \in PixFrames
    /\ quant = [pc |-> "idle"]
    /\ strip = StripIdle
    /\ clus = ClusIdle
    /\ samp = [pc |-> "idle"]
    /\ acc = [pc |-> "idle"]
    /\ batch = [pc |-> "idle"]

NextPix == image_to_pixels \/ extract_palette_kmeans_lab_pixels

SpecPix == InitPix /\ [][NextPix]_vars

(***************************************************************************)
(* Properties of single-image sampling.                                    *)
(***************************************************************************)
PixDone == pix.pc = "done"

ProperFraction(f) == 0 < f[1] /\ f[1] < f[2]

\* C11: with a fraction in (0,1) the sample has exactly
\* floor(totalPixels * fraction) pixels, each from a distinct position inside
\* the image; with a fraction >= 1.0 it is all pixels in their original order.
C11_SampleSizeFloorAndDistinct ==
    PixDone =>
        /\ ProperFraction(pix.sample_fraction) =>
              /\ Len(pix.pixels) =
                    (pix.n_pixels * pix.sample_fraction[1]) \div pix.sample_fraction[2]
              /\ \A i, j \in 1..Len(pix.pixels) : i # j => pix.pixels[i] # pix.pixels[j]
              /\ \A i \in 1..Len(pix.pixels) : pix.pixels[i] \in 0..(pix.n_pixels - 1)
        /\ pix.sample_fraction[1] >= pix.sample_fraction[2] =>
              pix.pixels = [i \in 1..pix.n_pixels |-> i - 1]


(***************************************************************************)
(* lab_array_to_rgb_colors, and the RGB branch of extract_palette_kmeans:  *)
(* the quantization of a cluster center to uint8.                          *)
(*                                                                         *)
(* Both work element by element, so a frame holds one channel of one       *)
(* center.  The channel value is the float handed to np.clip: rgb * 255.0  *)
(* with rgb the 0-1 output of color.lab2rgb, or a k-means center of        *)
(* pixels in 0..255.  It is kept in tenths: 2546 is 254.6.                 *)
(***************************************************************************)
ChannelMax == 255

Scale == 10

ChannelValues == 0..(ChannelMax * Scale)

\* np.clip(x, 0, 255)
Clip(x) == IF x < 0 THEN 0 ELSE IF x > ChannelMax * Scale THEN ChannelMax * Scale ELSE x

\* .astype(np.uint8) of a float in [0, 255]: the fraction is dropped.
AsUint8(x) == x \div Scale

QuantIdle == [pc |-> "idle"]

QuantFrames ==
    [pc : {"call"}, fn : {"lab_array_to_rgb_colors", "extract_palette_kmeans"},
     x : ChannelValues, rgb : {0}]

lab_array_to_rgb_colors ==
    /\ quant.pc = "call"
    /\ quant.fn = "lab_array_to_rgb_colors"
    /\ quant' = [quant EXCEPT !.pc = "done", !.rgb = AsUint8(Clip(quant.x))]
    /\ UNCHANGED <<strip, clus, samp, acc, batch, pix>>

\* centers_rgb = np.clip(centers, 0, 255).astype(np.uint8)
extract_palette_kmeans_centers_rgb ==
    /\ quant.pc = "call"
    /\ quant.fn = "extract_palette_kmeans"
    /\ quant' = [quant EXCEPT !.pc = "done", !.rgb = AsUint8(Clip(quant.x))]
    /\ UNCHANGED <<strip, clus, samp, acc, batch, pix>>

InitQuant ==
    /\ quant \in QuantFrames
    /\ pix = PixIdle
    /\ strip = StripIdle
    /\ clus = ClusIdle
    /\ samp = [pc |-> "idle"]
    /\ acc = [pc |-> "idle"]
    /\ batch = [pc |-> "idle"]

NextQuant == lab_array_to_rgb_colors \/ extract_palette_kmeans_centers_rgb

SpecQuant == InitQuant /\ [][NextQuant]_vars

(***************************************************************************)
(* Properties of the quantization.                                         *)
(***************************************************************************)
QuantDone == quant.pc = "done"

Distance(a, b) == IF a >= b THEN a - b ELSE b - a

\* C12: the 8-bit output of a channel value x is an integer of 0..255 nearest
\* to min(max(x, 0), 255): it lies no further than one half from it.
C12_QuantizeRoundsToNearest ==
    QuantDone =>
        /\ quant.rgb \in 0..ChannelMax
        /\ 2 * Distance(quant.rgb * Scale, Clip(quant.x)) <= Scale

====
